---- MODULE Spec2Model ----
(***************************************************************************)
(* Device Loaner front end: the API client (services/api), the BorrowForm  *)
(* and ReturnForm components and the App tab switch, as a state machine.   *)
(*                                                                         *)
(* Names and emails are sequences of one-character strings, so that trim   *)
(* and toLowerCase are computed; asset ids, device types and messages are  *)
(* plain strings (the code only copies, compares and concatenates them).   *)
(***************************************************************************)
EXTENDS Integers, Sequences, FiniteSets, TLC

VARIABLES
    activeTab,    \* App: 'borrow' | 'return'; the other form is not mounted
    BorrowForm,   \* the state of the mounted BorrowForm instance
    ReturnForm,   \* the state of the mounted ReturnForm instance
    tasks,        \* the batch submissions that are running (async calls)
    network,      \* the write requests in flight
    returned      \* the batch call that returned in the step just taken

vars == <<activeTab, BorrowForm, ReturnForm, tasks, network, returned>>

(***************************************************************************)
(* Bounds of the model                                                     *)
(***************************************************************************)
\* batches running at the same time
MaxBatches == 2
\* devices of a direct call of borrowMultipleDevices
MaxItems == 2

\* devices in a device list the directory answers with
MaxDevices == 3

(***************************************************************************)
(* Strings                                                                 *)
(***************************************************************************)
EmptyStr == <<>>

IsWhitespace(c) == c = " "

LowerChar(c) ==
    CASE c = "A" -> "a"
      [] c = "B" -> "b"
      [] c = "C" -> "c"
      [] c = "D" -> "d"
      [] c = "E" -> "e"
      [] c = "F" -> "f"
      [] c = "G" -> "g"
      [] c = "H" -> "h"
      [] c = "I" -> "i"
      [] c = "J" -> "j"
      [] c = "K" -> "k"
      [] c = "L" -> "l"
      [] c = "M" -> "m"
      [] c = "N" -> "n"
      [] c = "O" -> "o"
      [] c = "P" -> "p"
      [] c = "Q" -> "q"
      [] c = "R" -> "r"
      [] c = "S" -> "s"
      [] c = "T" -> "t"
      [] c = "U" -> "u"
      [] c = "V" -> "v"
      [] c = "W" -> "w"
      [] c = "X" -> "x"
      [] c = "Y" -> "y"
      [] c = "Z" -> "z"
      [] OTHER -> c

toLowerCase(s) == [k \in 1..Len(s) |-> LowerChar(s[k])]

RECURSIVE trimStart(_)
trimStart(s) ==
    IF s # <<>> /\ IsWhitespace(Head(s)) THEN trimStart(Tail(s)) ELSE s

RECURSIVE trimEnd(_)
trimEnd(s) ==
    IF s # <<>> /\ IsWhitespace(s[Len(s)])
    THEN trimEnd(SubSeq(s, 1, Len(s) - 1))
    ELSE s

trim(s) == trimEnd(trimStart(s))

Range(s) == {s[k] : k \in 1..Len(s)}

(***************************************************************************)
(* Devices (types/device: Device).  The Borrowed field is carried by the   *)
(* payload and never read by the code; it is left out.                     *)
(***************************************************************************)
Ann == <<"A", "n">>
annLower == <<"a", "n">>
AnnMail == <<"a", "@", "b", ".", "c">>

Device(id, type, name, email) ==
    [AssetID |-> id, DeviceType |-> type, Name |-> name, Email |-> email]

(***************************************************************************)
(* JavaScript values met by the error path                                 *)
(***************************************************************************)
JsUndefined == [t |-> "undefined"]
JsString(s) == [t |-> "string", s |-> s]
JsArray(items) == [t |-> "array", items |-> items]
JsObject == [t |-> "object"]

\* truthiness, as tested by `a || b`
JsTruthy(v) ==
    CASE v.t = "undefined" -> FALSE
      [] v.t = "string" -> v.s # ""
      [] v.t = "array" -> TRUE
      [] v.t = "object" -> TRUE

RECURSIVE JoinComma(_)
JoinComma(items) ==
    IF items = <<>> THEN ""
    ELSE IF Len(items) = 1 THEN items[1]
    ELSE items[1] \o "," \o JoinComma(Tail(items))

\* ToString, as applied by the Error constructor to its message
JsToString(v) ==
    CASE v.t = "undefined" -> "undefined"
      [] v.t = "string" -> v.s
      [] v.t = "array" -> JoinComma(v.items)
      [] v.t = "object" -> "[object Object]"

(***************************************************************************)
(* What a fetch() call settles with                                        *)
(***************************************************************************)
\* the promise rejects: the thrown value
Rejected(class, message) ==
    [type |-> "reject", class |-> class, message |-> message]

\* the promise resolves with a Response
Responded(status, contentType, text, parsed) ==
    [type |-> "response", status |-> status, contentType |-> contentType,
     text |-> text, parsed |-> parsed]

\* response.json(): the body is not JSON, or the value it parses to
NotJson == [valid |-> FALSE]
Json(value) == [valid |-> TRUE, value |-> value]
\* a JSON object with its message and error members
ErrorBody(message, error) == [t |-> "object", message |-> message, error |-> error]
JsonNull == [t |-> "null"]
JsonOther == [t |-> "other"]

ResponseOk(response) == response.status \in 200..299

Ok200 == Responded(200, "application/json", "{}", Json(JsonOther))
Ok200Empty == Responded(200, "none", "", NotJson)
Http500Message ==
    Responded(500, "application/json", "{..}",
              Json(ErrorBody(JsString("server says no"), JsUndefined)))
Http500Error ==
    Responded(500, "application/json", "{..}",
              Json(ErrorBody(JsString(""), JsString("bad request"))))
Http500EmptyArray ==
    Responded(500, "application/json", "{..}",
              Json(ErrorBody(JsArray(<<>>), JsUndefined)))
Http500NoFields ==
    Responded(500, "application/json", "{}",
              Json(ErrorBody(JsUndefined, JsUndefined)))
Http500JsonNull == Responded(500, "application/json", "null", Json(JsonNull))
Http500BadJson == Responded(500, "application/json", "<html>", NotJson)
Http404Text == Responded(404, "text/plain", "Not Found", NotJson)
Http404NoText == Responded(404, "none", "", NotJson)
FailedToFetch == Rejected("TypeError", "Failed to fetch")
LoadFailed == Rejected("TypeError", "Load failed")
ThrownNonError == Rejected("none", "")

\* every kind of settlement of a write request
AllWriteOutcomes ==
    {Ok200, Ok200Empty, Http500Message, Http500Error, Http500EmptyArray,
     Http500NoFields, Http500JsonNull, Http500BadJson, Http404Text,
     Http404NoText, FailedToFetch, LoadFailed, ThrownNonError}

\* the settlements the application run draws from
WriteOutcomes == {Ok200, Http500Message}

(***************************************************************************)
(* services/api                                                            *)
(***************************************************************************)
\* new ApiRequestError(message, status, isNetworkError): the Error
\* constructor converts the message to a string
ApiRequestError(message, status, isNetworkError) ==
    [message |-> JsToString(message), status |-> status,
     isNetworkError |-> isNetworkError]

StatusMessage(response) ==
    JsString("Request failed with status " \o ToString(response.status))

parseErrorResponse(response) ==
    IF response.contentType = "application/json"
    THEN IF ~response.parsed.valid
         THEN StatusMessage(response)                \* json() throws: catch
         ELSE IF response.parsed.value.t = "null"
         THEN StatusMessage(response)                \* property of null: catch
         ELSE IF response.parsed.value.t # "object"
         THEN StatusMessage(response)                \* both members undefined
         ELSE IF JsTruthy(response.parsed.value.message)
         THEN response.parsed.value.message
         ELSE IF JsTruthy(response.parsed.value.error)
         THEN response.parsed.value.error
         ELSE StatusMessage(response)
    ELSE IF response.text # ""
         THEN JsString(response.text)
         ELSE StatusMessage(response)

Succeeded == [ok |-> TRUE]
Threw(error) == [ok |-> FALSE, error |-> error]

\* the catch block shared by fetchDevices, borrowDevice and returnDevice
\* for a value that is not an ApiRequestError
CatchOther(thrown, networkMessage, fallback) ==
    IF thrown.class = "TypeError" /\ thrown.message = "Failed to fetch"
    THEN Threw(ApiRequestError(JsString(networkMessage), <<>>, TRUE))
    ELSE Threw(ApiRequestError(
                 JsString(IF thrown.class # "none" THEN thrown.message
                          ELSE fallback), <<>>, FALSE))

WriteNetworkMessage ==
    "Unable to connect to the server. Please check your internet connection."

\* response.json() on a body that is not JSON throws a SyntaxError
JsonSyntaxError == Rejected("SyntaxError", "Unexpected end of JSON input")

\* borrowDevice, from the settlement of its fetch to its own settlement
borrowDevice(outcome) ==
    IF outcome.type = "reject"
    THEN CatchOther(outcome, WriteNetworkMessage, "Failed to borrow device")
    ELSE IF ~ResponseOk(outcome)
    THEN Threw(ApiRequestError(parseErrorResponse(outcome),
                               <<outcome.status>>, FALSE))
    ELSE IF ~outcome.parsed.valid
    THEN CatchOther(JsonSyntaxError, WriteNetworkMessage,
                    "Failed to borrow device")
    ELSE Succeeded

\* returnDevice: the body of a success response is not read
returnDevice(outcome) ==
    IF outcome.type = "reject"
    THEN CatchOther(outcome, WriteNetworkMessage, "Failed to return device")
    ELSE IF ~ResponseOk(outcome)
    THEN Threw(ApiRequestError(parseErrorResponse(outcome),
                               <<outcome.status>>, FALSE))
    ELSE Succeeded

\* the JSON bodies of the two write requests
\* a variant that puts the name and the email in each other's member
BorrowRequestBodySwapped(deviceId, name, email, reason, deviceType) ==
    [AssetID |-> deviceId, DeviceType |-> deviceType, Email |-> name,
     Name |-> email, Reason |-> reason]

BorrowRequestBody(deviceId, name, email, reason, deviceType) ==
    [AssetID |-> deviceId, DeviceType |-> deviceType, Email |-> email,
     Name |-> name, Reason |-> reason]

ReturnRequestBody(deviceId) ==
    [AssetID |-> deviceId, DeviceType |-> "", Email |-> EmptyStr,
     Name |-> EmptyStr, Reason |-> ""]

\* a variant that takes a device for available unless both fields are set
getAvailableDevicesUnlessBoth(devices) ==
    LET keep(device) == ~(device.Email # EmptyStr /\ device.Name # EmptyStr)
    IN  SelectSeq(devices, keep)

getAvailableDevices(devices) ==
    LET keep(device) == device.Email = EmptyStr /\ device.Name = EmptyStr
    IN  SelectSeq(devices, keep)

getBorrowedDevicesByUser(devices, name, email) ==
    LET keep(device) ==
            /\ toLowerCase(device.Name) = toLowerCase(name)
            /\ toLowerCase(device.Email) = toLowerCase(email)
    IN  SelectSeq(devices, keep)

\* a variant that lists the devices in the reverse order
getBorrowedDevicesReversed(devices) ==
    LET keep(device) == device.Email # EmptyStr /\ device.Name # EmptyStr
        kept == SelectSeq(devices, keep)
    IN  [k \in 1..Len(kept) |-> kept[Len(kept) + 1 - k]]

getBorrowedDevices(devices) ==
    LET keep(device) == device.Email # EmptyStr /\ device.Name # EmptyStr
    IN  SelectSeq(devices, keep)

(***************************************************************************)
(* A batch submission: one call of borrowMultipleDevices (directly, or     *)
(* from BorrowForm.handleSubmit) or one run of the loop of                 *)
(* ReturnForm.handleSubmit.                                                *)
(*   kind     'borrow' | 'return'                                          *)
(*   form     TRUE when a form's handleSubmit runs it                      *)
(*   mounted  TRUE while that form instance is mounted (React drops the    *)
(*            state updates of an unmounted component)                     *)
(*   devices  the list the loop runs over                                  *)
(*   i        the loop index                                               *)
(*   pc       'await' a write request is in flight, 'sleep' the 300 ms     *)
(*            timer is pending, 'reload' the handleSubmit of a mounted     *)
(*            form awaits loadDevices, 'done' the call is over (what an    *)
(*            unmounted form's handleSubmit does after its loop changes no *)
(*            state, and is not followed)                                  *)
(*   results  the result list built so far                                 *)
(*   trace    what the call has done so far, in order                      *)
(*   toast    the toast handleSubmit showed for the batch                  *)
(***************************************************************************)
DelayMs == 300

NoToast == [type |-> "none", title |-> ""]
Toast(type, title) == [type |-> type, title |-> title]

NewTask(kind, form, devices, name, email, reason) ==
    [kind |-> kind, form |-> form, mounted |-> form, devices |-> devices,
     name |-> name, email |-> email, reason |-> reason,
     i |-> 0, pc |-> "start", results |-> <<>>, trace |-> <<>>,
     toast |-> NoToast]

ProgressEvent(completed, total, currentDevice) ==
    [ev |-> "progress", completed |-> completed, total |-> total,
     currentDevice |-> currentDevice]
RequestEvent(i, body) == [ev |-> "request", i |-> i, body |-> body]
SettledEvent(i, ok) == [ev |-> "settled", i |-> i, ok |-> ok]
DelayEvent(i, ms) == [ev |-> "delay", i |-> i, ms |-> ms]
\* handleSubmit after the loop: setSubmissionResults, onShowToast, loadDevices
ResultsEvent(results) == [ev |-> "results", results |-> results]
ToastEvent(toast) == [ev |-> "toast", toast |-> toast]
LoadEvent == [ev |-> "load"]

\* devices[i] of the zero-based loop
\* a variant that reads item i from the cart as it is now
ItemOfCart(t) ==
    IF t.kind = "borrow" /\ t.mounted /\ t.i + 1 <= Len(BorrowForm.cart)
    THEN BorrowForm.cart[t.i + 1].device
    ELSE t.devices[t.i + 1]

Item(t) == t.devices[t.i + 1]

WriteBody(t) ==
    IF t.kind = "borrow"
    THEN BorrowRequestBody(Item(t).AssetID, t.name, t.email, t.reason,
                           Item(t).DeviceType)
    ELSE ReturnRequestBody(Item(t).AssetID)

\* a variant that reports a mixed result as all failed
ClassifyToastAnyFailure(kind, results) ==
    LET isFailure(r) == ~r.success
    IN  IF Len(SelectSeq(results, isFailure)) = 0
        THEN Toast("success", IF kind = "borrow"
                              THEN "All devices borrowed successfully!"
                              ELSE "All devices returned!")
        ELSE Toast("error", IF kind = "borrow" THEN "All requests failed"
                            ELSE "Return failed")

\* the three-way report of handleSubmit on the result list
ClassifyToast(kind, results) ==
    LET isSuccess(r) == r.success
        isFailure(r) == ~r.success
        successCount == Len(SelectSeq(results, isSuccess))
        failCount == IF kind = "borrow"
                     THEN Len(SelectSeq(results, isFailure))
                     ELSE Len(results) - successCount
    IN  IF failCount = 0
        THEN Toast("success", IF kind = "borrow"
                              THEN "All devices borrowed successfully!"
                              ELSE "All devices returned!")
        ELSE IF successCount > 0
        THEN Toast("warning", "Partial success")
        ELSE Toast("error", IF kind = "borrow" THEN "All requests failed"
                            ELSE "Return failed")

\* a variant without the progress report after the loop
AfterLoopSilent(t) ==
    LET shown == IF t.form
                 THEN [t EXCEPT !.toast = ClassifyToast(t.kind, t.results)]
                 ELSE t
    IN  [shown EXCEPT !.pc = IF t.form /\ t.mounted THEN "reload" ELSE "done"]

\* a variant that fetches the directory again only when an item succeeded
AfterLoopReloadOnSuccess(t) ==
    LET total == Len(t.devices)
        reported == [t EXCEPT !.trace = @ \o <<ProgressEvent(total, total, "")>>]
        toast == ClassifyToast(t.kind, t.results)
        anySuccess == \E k \in 1..Len(t.results) : t.results[k].success
        shown == IF t.form
                 THEN [reported EXCEPT
                          !.toast = toast,
                          !.trace = @ \o <<ResultsEvent(t.results), ToastEvent(toast)>>
                                      \o (IF anySuccess THEN <<LoadEvent>> ELSE <<>>)]
                 ELSE reported
    IN  [shown EXCEPT !.pc = IF t.form /\ t.mounted /\ anySuccess
                             THEN "reload" ELSE "done"]

\* after the loop: the last progress report, and, in a form, handleSubmit's
\* report and its call of loadDevices
AfterLoop(t) ==
    LET total == Len(t.devices)
        reported == [t EXCEPT !.trace = @ \o <<ProgressEvent(total, total, "")>>]
        toast == ClassifyToast(t.kind, t.results)
        shown == IF t.form
                 THEN [reported EXCEPT
                          !.toast = toast,
                          !.trace = @ \o <<ResultsEvent(t.results),
                                           ToastEvent(toast), LoadEvent>>]
                 ELSE reported
    IN  [shown EXCEPT !.pc = IF t.form /\ t.mounted THEN "reload" ELSE "done"]

\* the loop test and, when it passes, the body up to its await: the
\* progress report of item i, then the write request of item i
LoopHead(t) ==
    IF t.i < Len(t.devices)
    THEN [t EXCEPT !.pc = "await",
                   !.trace = @ \o <<ProgressEvent(t.i, Len(t.devices),
                                                  Item(t).AssetID),
                                    RequestEvent(t.i, WriteBody(t))>>]
    ELSE AfterLoop(t)

\* a variant whose results all carry the id of the first device
ResultOfFirst(t, settled) ==
    IF settled.ok
    THEN [deviceId |-> t.devices[1].AssetID, success |-> TRUE]
    ELSE [deviceId |-> t.devices[1].AssetID, success |-> FALSE,
          error |-> settled.error.message]

\* the catch of the loop body: the message of the result
ErrorMessage(settled) == settled.error.message

ResultOf(t, settled) ==
    IF settled.ok
    THEN [deviceId |-> Item(t).AssetID, success |-> TRUE]
    ELSE [deviceId |-> Item(t).AssetID, success |-> FALSE,
          error |-> ErrorMessage(settled)]

\* a variant that leaves the loop at the first failure
AfterSettleBreak(t, settled) ==
    LET pushed == [t EXCEPT !.results = Append(@, ResultOf(t, settled)),
                            !.trace = Append(@, SettledEvent(t.i, settled.ok))]
    IN  IF settled.ok /\ t.i < Len(t.devices) - 1
        THEN [pushed EXCEPT !.pc = "sleep",
                            !.trace = Append(@, DelayEvent(t.i, DelayMs))]
        ELSE AfterLoop([pushed EXCEPT !.i = @ + 1])

\* a variant that goes on to the next item at once after a failure
AfterSettleNoDelayOnFailure(t, settled) ==
    LET pushed == [t EXCEPT !.results = Append(@, ResultOf(t, settled)),
                            !.trace = Append(@, SettledEvent(t.i, settled.ok))]
    IN  IF t.i < Len(t.devices) - 1
        THEN IF settled.ok
             THEN [pushed EXCEPT !.pc = "sleep",
                                 !.trace = Append(@, DelayEvent(t.i, DelayMs))]
             ELSE LoopHead([pushed EXCEPT !.i = @ + 1])
        ELSE AfterLoop([pushed EXCEPT !.i = @ + 1])

\* a variant without the catch: a failure ends the call, with no result
AfterSettleRethrow(t, settled) ==
    LET pushed == [t EXCEPT !.results = Append(@, ResultOf(t, settled)),
                            !.trace = Append(@, SettledEvent(t.i, settled.ok))]
    IN  IF ~settled.ok
        THEN [t EXCEPT !.pc = "done",
                       !.trace = Append(@, SettledEvent(t.i, FALSE))]
        ELSE IF t.i < Len(t.devices) - 1
        THEN [pushed EXCEPT !.pc = "sleep",
                            !.trace = Append(@, DelayEvent(t.i, DelayMs))]
        ELSE AfterLoop([pushed EXCEPT !.i = @ + 1])

\* the rest of the loop body once the write request of item i has settled:
\* push the result, then either set the timer or leave the loop
AfterSettle(t, settled) ==
    LET pushed == [t EXCEPT !.results = Append(@, ResultOf(t, settled)),
                            !.trace = Append(@, SettledEvent(t.i, settled.ok))]
    IN  IF t.i < Len(t.devices) - 1
        THEN [pushed EXCEPT !.pc = "sleep",
                            !.trace = Append(@, DelayEvent(t.i, DelayMs))]
        ELSE AfterLoop([pushed EXCEPT !.i = @ + 1])

\* the timer fired: i++ and the next pass of the loop
AfterDelay(t) == LoopHead([t EXCEPT !.i = @ + 1])

WriteSettlement(t, outcome) ==
    IF t.kind = "borrow" THEN borrowDevice(outcome) ELSE returnDevice(outcome)

\* the write request a task has in flight
RequestOf(id, t) == [task |-> id, i |-> t.i, body |-> WriteBody(t)]

InFlight(id) == {r \in network : r.task = id}

(***************************************************************************)
(* utils/validation                                                        *)
(***************************************************************************)
validateRequired(value) == Len(trim(value)) > 0

\* a variant that asks only for an @ after the first character
validateEmailHasAt(email) == \E at \in 2..Len(email) : email[at] = "@"

\* /^[^\s@]+@[^\s@]+\.[^\s@]+$/
validateEmail(email) ==
    LET plain(k) == ~IsWhitespace(email[k]) /\ email[k] # "@"
    IN  \E at \in 2..Len(email), dot \in 4..Len(email) :
            /\ email[at] = "@"
            /\ email[dot] = "."
            /\ at + 1 < dot
            /\ dot < Len(email)
            /\ \A k \in 1..Len(email) : k \notin {at, dot} => plain(k)

getEmailError(email) ==
    IF ~validateRequired(email) THEN "Email is required"
    ELSE IF ~validateEmail(email) THEN "Please enter a valid email address"
    ELSE ""

getRequiredFieldError(value, fieldName) ==
    IF ~validateRequired(value) THEN fieldName \o " is required" ELSE ""

(***************************************************************************)
(* The directory the read endpoint serves, and what the user types         *)
(***************************************************************************)
C001 == Device("C001", "Charger", EmptyStr, EmptyStr)
C004 == Device("C004", "Charger", EmptyStr, EmptyStr)
L002 == Device("L002", "Laptop", Ann, AnnMail)
L003 == Device("L003", "Laptop", annLower, AnnMail)
C001Borrowed == Device("C001", "Charger", Ann, AnnMail)

\* the device lists a GET of the directory answers with
Payloads ==
    { <<C001, L002, C004, L003>>,
      <<C001Borrowed, C004>> }

DevicesBody(list) == [t |-> "devices", list |-> list]

ReadOutcomes ==
    {Responded(200, "application/json", "[..]", Json(DevicesBody(list))) :
        list \in Payloads}
    \cup {FailedToFetch}

\* every kind of settlement of the GET that is a failure
ReadFailures == AllWriteOutcomes \ {Ok200}

NameInputs == {EmptyStr, Ann}
EmailInputs == {EmptyStr, AnnMail, <<"a">>}

ReadNetworkMessage ==
    "Unable to connect to the server. Please check your internet connection or try again later."

\* fetchDevices, from the settlement of its fetch to its own settlement
fetchDevices(outcome) ==
    IF outcome.type = "reject"
    THEN CatchOther(outcome, ReadNetworkMessage, "An unexpected error occurred")
    ELSE IF ~ResponseOk(outcome)
    THEN Threw(ApiRequestError(parseErrorResponse(outcome),
                               <<outcome.status>>, FALSE))
    ELSE IF ~outcome.parsed.valid
    THEN CatchOther(JsonSyntaxError, ReadNetworkMessage,
                    "An unexpected error occurred")
    ELSE [ok |-> TRUE, data |-> outcome.parsed.value.list]

(***************************************************************************)
(* Component state                                                         *)
(***************************************************************************)
NoLoadError == [t |-> "null"]
HasLoadError(form) == form.loadError.t = "string" /\ form.loadError.s # ""

NoProgress == [current |-> 0, total |-> 0, deviceId |-> ""]
NullProgress == [null |-> TRUE]
NullResults == [null |-> TRUE]
Results(list) == [null |-> FALSE, list |-> list]

\* useState initial values of BorrowForm
BorrowFormInitial ==
    [devices |-> <<>>, loading |-> TRUE, loadError |-> NoLoadError,
     submitting |-> FALSE, submitted |-> FALSE, cart |-> <<>>,
     submissionResults |-> <<>>, progress |-> NoProgress,
     formData |-> [name |-> EmptyStr, email |-> EmptyStr],
     errors |-> {}]

\* useState initial values of ReturnForm
ReturnFormInitial ==
    [devices |-> <<>>, loading |-> TRUE, loadError |-> NoLoadError,
     submitting |-> FALSE, progress |-> NullProgress,
     submissionResults |-> NullResults,
     name |-> EmptyStr, email |-> EmptyStr, selectedDevices |-> {}]

\* the form of the tab that is not shown holds no state: its variable
\* keeps the initial values, with no load running
BorrowFormUnmounted == [BorrowFormInitial EXCEPT !.loading = FALSE]
ReturnFormUnmounted == [ReturnFormInitial EXCEPT !.loading = FALSE]

\* which of its views a form renders
BorrowView ==
    IF BorrowForm.submitted THEN "results"
    ELSE IF BorrowForm.loading THEN "loading"
    ELSE IF HasLoadError(BorrowForm) THEN "error"
    ELSE "form"

ReturnView ==
    IF ~ReturnForm.submissionResults.null THEN "results"
    ELSE IF ReturnForm.loading THEN "loading"
    ELSE IF HasLoadError(ReturnForm) THEN "error"
    ELSE "form"

\* BorrowForm: values derived on every render
availableDevices == getAvailableDevices(BorrowForm.devices)

IsInCart(cart, assetId) == \E k \in 1..Len(cart) : cart[k].device.AssetID = assetId

selectableDevices ==
    LET keep(device) == ~IsInCart(BorrowForm.cart, device.AssetID)
    IN  SelectSeq(availableDevices, keep)

\* ReturnForm: devices borrowed by the entered name and email
\* a variant that matches the email alone
userBorrowedDevicesOfEmail(devices, name, email) ==
    IF trim(name) = EmptyStr \/ trim(email) = EmptyStr THEN <<>>
    ELSE LET keep(device) ==
                 /\ device.Email # EmptyStr
                 /\ toLowerCase(device.Email) = toLowerCase(trim(email))
         IN  SelectSeq(devices, keep)

userBorrowedDevicesOf(devices, name, email) ==
    IF trim(name) = EmptyStr \/ trim(email) = EmptyStr THEN <<>>
    ELSE LET keep(device) ==
                 /\ device.Name # EmptyStr
                 /\ device.Email # EmptyStr
                 /\ toLowerCase(device.Name) = toLowerCase(trim(name))
                 /\ toLowerCase(device.Email) = toLowerCase(trim(email))
         IN  SelectSeq(devices, keep)

userBorrowedDevices ==
    userBorrowedDevicesOf(ReturnForm.devices, ReturnForm.name, ReturnForm.email)

BorrowerKey(device) ==
    toLowerCase(device.Name) \o <<"|">> \o toLowerCase(device.Email)

\* the Map of uniqueBorrowers, as the list of its entries in insertion order
RECURSIVE GroupBorrowers(_, _)
GroupBorrowers(borrowed, entries) ==
    IF borrowed = <<>> THEN entries
    ELSE LET device == Head(borrowed)
             key == BorrowerKey(device)
             has == \E k \in 1..Len(entries) : entries[k].key = key
             next ==
                 IF ~has
                 THEN Append(entries,
                             [key |-> key, name |-> device.Name,
                              email |-> device.Email, deviceCount |-> 1])
                 ELSE [k \in 1..Len(entries) |->
                          IF entries[k].key = key
                          THEN [entries[k] EXCEPT !.deviceCount = @ + 1]
                          ELSE entries[k]]
         IN  GroupBorrowers(Tail(borrowed), next)

\* a variant that groups all the devices, not only the borrowed ones
uniqueBorrowersOfAll(devices) ==
    LET entries == GroupBorrowers(devices, <<>>)
    IN  [k \in 1..Len(entries) |->
            [name |-> entries[k].name, email |-> entries[k].email,
             deviceCount |-> entries[k].deviceCount]]

uniqueBorrowersOf(devices) ==
    LET entries == GroupBorrowers(getBorrowedDevices(devices), <<>>)
    IN  [k \in 1..Len(entries) |->
            [name |-> entries[k].name, email |-> entries[k].email,
             deviceCount |-> entries[k].deviceCount]]

\* String.prototype.includes
Includes(s, sub) ==
    \E k \in 0..(Len(s) - Len(sub)) : SubSeq(s, k + 1, k + Len(sub)) = sub

\* a variant that looks for the query in the names only
suggestionsOfNameOnly(borrowers, query) ==
    IF trim(query) = EmptyStr THEN borrowers
    ELSE LET searchTerm == toLowerCase(query)
             keep(b) == Includes(toLowerCase(b.name), searchTerm)
         IN  SelectSeq(borrowers, keep)

suggestionsOf(borrowers, query) ==
    IF trim(query) = EmptyStr THEN borrowers
    ELSE LET searchTerm == toLowerCase(query)
             keep(b) == \/ Includes(toLowerCase(b.name), searchTerm)
                        \/ Includes(toLowerCase(b.email), searchTerm)
         IN  SelectSeq(borrowers, keep)

nameSuggestions == suggestionsOf(uniqueBorrowersOf(ReturnForm.devices), ReturnForm.name)
emailSuggestions == suggestionsOf(uniqueBorrowersOf(ReturnForm.devices), ReturnForm.email)

(***************************************************************************)
(* The application: App mounts BorrowForm, whose effect calls loadDevices  *)
(***************************************************************************)
Init ==
    /\ activeTab = "borrow"
    /\ BorrowForm = BorrowFormInitial
    /\ ReturnForm = ReturnFormUnmounted
    /\ tasks = <<>>
    /\ network = {}
    /\ returned = {}

\* the running batches, oldest first
Running == 1..Len(tasks)

Started(t) == IF t.pc = "done" THEN tasks ELSE Append(tasks, t)

StartedId == Len(tasks) + 1

\* the frame of a call is gone once the call is over
Remove(seq, gone) ==
    LET left == {k \in 1..Len(seq) : k \notin gone}
        below(k) == Cardinality({j \in left : j < k})
    IN  [n \in 1..Cardinality(left) |->
            seq[CHOOSE k \in left : below(k) = n - 1]]

Stepped(id, t) ==
    IF t.pc = "done" THEN Remove(tasks, {id}) ELSE [tasks EXCEPT ![id] = t]

\* the requests in flight, once the calls in `gone` are over
Renumbered(requests, gone) ==
    {[r EXCEPT !.task = @ - Cardinality({j \in gone : j < @})] :
        r \in {q \in requests : q.task \notin gone}}

Over(id, t) == IF t.pc = "done" THEN {id} ELSE {}

Returned(t) == IF t.pc = "done" THEN {t} ELSE {}

\* the batch a mounted form instance is running, if any
Attached(kind) ==
    {id \in Running : tasks[id].kind = kind /\ tasks[id].mounted}

\* a variant that counts the item in flight as completed
ProgressOfNext(t) ==
    IF t.pc = "await"
    THEN [current |-> t.i + 1, total |-> Len(t.devices), deviceId |-> Item(t).AssetID]
    ELSE [current |-> Len(t.devices), total |-> Len(t.devices), deviceId |-> ""]

ProgressOf(t) ==
    IF t.pc = "await"
    THEN [current |-> t.i, total |-> Len(t.devices), deviceId |-> Item(t).AssetID]
    ELSE [current |-> Len(t.devices), total |-> Len(t.devices), deviceId |-> ""]

\* the state updates a step of a borrow batch makes in its (mounted) form:
\* the progress callback, and after the loop lines 274-296 of handleSubmit
BorrowFormAfter(form, t) ==
    IF t.pc = "await"
    THEN [form EXCEPT !.progress = ProgressOf(t)]
    ELSE IF t.pc = "reload"
    THEN [form EXCEPT !.progress = ProgressOf(t),
                      !.submissionResults = t.results,
                      !.submitted = TRUE,
                      !.loading = TRUE,
                      !.loadError = NoLoadError]
    ELSE form

\* the same for the loop of ReturnForm.handleSubmit
ReturnFormAfter(form, t) ==
    IF t.pc = "await"
    THEN [form EXCEPT !.progress = ProgressOf(t)]
    ELSE IF t.pc = "reload"
    THEN [form EXCEPT !.progress = ProgressOf(t),
                      !.submissionResults = Results(t.results),
                      !.submitting = FALSE,
                      !.loading = TRUE,
                      !.loadError = NoLoadError]
    ELSE form

\* a step took a task to t: its effect on the component state
FormsAfter(t) ==
    /\ BorrowForm' = IF t.mounted /\ t.kind = "borrow"
                     THEN BorrowFormAfter(BorrowForm, t) ELSE BorrowForm
    /\ ReturnForm' = IF t.mounted /\ t.kind = "return"
                     THEN ReturnFormAfter(ReturnForm, t) ELSE ReturnForm

\* a variant that starts the requests of all the remaining items at once
NetworkAfterAll(id, t) ==
    IF t.pc = "await"
    THEN {RequestOf(id, [t EXCEPT !.i = k]) : k \in t.i..(Len(t.devices) - 1)}
    ELSE {}

NetworkAfter(id, t) ==
    IF t.pc = "await" THEN {RequestOf(id, t)} ELSE {}

\* App: a click on the tab that is not active unmounts the shown form and
\* mounts the other one, whose effect calls loadDevices
SwitchTab(tab) ==
    /\ activeTab # tab
    /\ activeTab' = tab
    /\ BorrowForm' = IF tab = "borrow" THEN BorrowFormInitial ELSE BorrowFormUnmounted
    /\ ReturnForm' = IF tab = "return" THEN ReturnFormInitial ELSE ReturnFormUnmounted
    /\ LET gone == {id \in Running : tasks[id].pc = "reload"}
       IN  /\ tasks' = Remove([id \in Running |->
                                 [tasks[id] EXCEPT !.mounted = FALSE]], gone)
           /\ network' = Renumbered(network, gone)
    /\ returned' = {}

\* a variant that empties the list when the fetch fails
LoadSettledClearing(form, settled) ==
    IF settled.ok
    THEN [form EXCEPT !.devices = settled.data, !.loading = FALSE]
    ELSE [form EXCEPT !.devices = <<>>,
                      !.loadError = JsString(settled.error.message),
                      !.loading = FALSE]

\* loadDevices after its fetchDevices call has settled
LoadSettled(form, settled) ==
    IF settled.ok
    THEN [form EXCEPT !.devices = settled.data, !.loading = FALSE]
    ELSE [form EXCEPT !.loadError = JsString(settled.error.message),
                      !.loading = FALSE]

\* the handleSubmit that awaited loadDevices ends
Reloading(kind) == {id \in Attached(kind) : tasks[id].pc = "reload"}

FinishReload(kind) ==
    /\ tasks' = Remove(tasks, Reloading(kind))
    /\ network' = Renumbered(network, Reloading(kind))
    /\ returned' = {[tasks[id] EXCEPT !.pc = "done"] : id \in Reloading(kind)}

\* the GET of the mounted form settles; a handleSubmit awaiting it ends
\* (BorrowForm: finally setSubmitting(false))
BorrowLoadSettle(outcome) ==
    /\ activeTab = "borrow"
    /\ BorrowForm.loading
    /\ LET loaded == LoadSettled(BorrowForm, fetchDevices(outcome))
       IN  BorrowForm' = IF Reloading("borrow") # {}
                         THEN [loaded EXCEPT !.submitting = FALSE]
                         ELSE loaded
    /\ FinishReload("borrow")
    /\ UNCHANGED <<activeTab, ReturnForm>>

ReturnLoadSettle(outcome) ==
    /\ activeTab = "return"
    /\ ReturnForm.loading
    /\ ReturnForm' = LoadSettled(ReturnForm, fetchDevices(outcome))
    /\ FinishReload("return")
    /\ UNCHANGED <<activeTab, BorrowForm>>

\* the Try Again button of the error view
BorrowRetry ==
    /\ activeTab = "borrow"
    /\ BorrowView = "error"
    /\ BorrowForm' = [BorrowForm EXCEPT !.loading = TRUE, !.loadError = NoLoadError]
    /\ returned' = {}
    /\ UNCHANGED <<activeTab, ReturnForm, tasks, network>>

ReturnRetry ==
    /\ activeTab = "return"
    /\ ReturnView = "error"
    /\ ReturnForm' = [ReturnForm EXCEPT !.loading = TRUE, !.loadError = NoLoadError]
    /\ returned' = {}
    /\ UNCHANGED <<activeTab, BorrowForm, tasks, network>>

(***************************************************************************)
(* Steps of a batch                                                        *)
(***************************************************************************)
\* the write request in flight settles and the loop body runs on
SettleWrite(outcomes) ==
    \E r \in network, outcome \in outcomes :
        LET t == AfterSettle(tasks[r.task], WriteSettlement(tasks[r.task], outcome))
        IN  /\ tasks' = Stepped(r.task, t)
            /\ returned' = Returned(t)
            /\ network' = Renumbered((network \ {r}) \cup NetworkAfter(r.task, t),
                                      Over(r.task, t))
            /\ FormsAfter(t)
            /\ UNCHANGED activeTab

\* the 300 ms timer fires
DelayElapsed(id) ==
    /\ tasks[id].pc = "sleep"
    /\ LET t == AfterDelay(tasks[id])
       IN  /\ tasks' = Stepped(id, t)
           /\ returned' = Returned(t)
           /\ network' = Renumbered(network \cup NetworkAfter(id, t), Over(id, t))
           /\ FormsAfter(t)
    /\ UNCHANGED activeTab

(***************************************************************************)
(* BorrowForm: what the user does                                          *)
(***************************************************************************)
BorrowShown == activeTab = "borrow" /\ BorrowView = "form"

BorrowEdit(form) ==
    /\ BorrowShown
    /\ BorrowForm' = form
    /\ returned' = {}
    /\ UNCHANGED <<activeTab, ReturnForm, tasks, network>>

handleInputChange(field, value) ==
    BorrowEdit([BorrowForm EXCEPT !.formData[field] = value,
                                  !.errors = @ \ {field}])

\* a variant of addToCart without the test for the device being in the cart
AddedToCartAlways(cart, device) == Append(cart, [device |-> device])

\* the cart addToCart leaves
AddedToCart(cart, device) ==
    IF IsInCart(cart, device.AssetID) THEN cart
    ELSE Append(cart, [device |-> device])

\* the cart removeFromCart leaves
RemovedFromCart(cart, assetId) ==
    LET keep(item) == item.device.AssetID # assetId
    IN  SelectSeq(cart, keep)

\* the cards shown are those of selectableDevices
addToCart(device) ==
    /\ device \in Range(selectableDevices)
    /\ BorrowEdit([BorrowForm EXCEPT !.cart = AddedToCart(@, device)])

removeFromCart(assetId) ==
    /\ IsInCart(BorrowForm.cart, assetId)
    /\ BorrowEdit([BorrowForm EXCEPT !.cart = RemovedFromCart(@, assetId)])

clearCart ==
    /\ Len(BorrowForm.cart) > 0
    /\ BorrowEdit([BorrowForm EXCEPT !.cart = <<>>])

\* validateForm: the keys of newErrors
validateForm(form) ==
    (IF getRequiredFieldError(form.formData.name, "Name") # ""
     THEN {"name"} ELSE {})
    \cup (IF getEmailError(form.formData.email) # "" THEN {"email"} ELSE {})
    \cup (IF Len(form.cart) = 0 THEN {"cart"} ELSE {})

\* cart.map((item) => item.device)
CartDevices(cart) == [k \in 1..Len(cart) |-> cart[k].device]

\* BorrowForm.handleSubmit with a valid form, up to its first await: the
\* call it starts, and the component state it leaves
BorrowSubmitTask(form) ==
    LoopHead(NewTask("borrow", TRUE, CartDevices(form.cart),
                     form.formData.name, form.formData.email, ""))

BorrowSubmitted(form) ==
    BorrowFormAfter([form EXCEPT !.submitting = TRUE, !.errors = {},
                                 !.progress = [current |-> 0,
                                               total |-> Len(form.cart),
                                               deviceId |-> ""]],
                    BorrowSubmitTask(form))

\* the submit button is enabled; handleSubmit up to its first await
BorrowSubmit ==
    /\ BorrowShown
    /\ ~BorrowForm.submitting
    /\ Len(BorrowForm.cart) > 0
    /\ Len(tasks) < MaxBatches
    /\ IF validateForm(BorrowForm) # {}
       THEN /\ BorrowForm' = [BorrowForm EXCEPT !.errors = validateForm(BorrowForm)]
            /\ UNCHANGED <<tasks, network>>
       ELSE /\ tasks' = Started(BorrowSubmitTask(BorrowForm))
            /\ network' = network \cup NetworkAfter(StartedId, BorrowSubmitTask(BorrowForm))
            /\ BorrowForm' = BorrowSubmitted(BorrowForm)
    /\ returned' = {}
    /\ UNCHANGED <<activeTab, ReturnForm>>

\* a variant that also empties the device list
handleResetAll ==
    /\ activeTab = "borrow"
    /\ BorrowView = "results"
    /\ BorrowForm' = [BorrowFormInitial EXCEPT !.loading = BorrowForm.loading]
    /\ returned' = {}
    /\ UNCHANGED <<activeTab, ReturnForm, tasks, network>>

handleReset ==
    /\ activeTab = "borrow"
    /\ BorrowView = "results"
    /\ BorrowForm' = [BorrowForm EXCEPT
                         !.submitted = FALSE,
                         !.submissionResults = <<>>,
                         !.cart = <<>>,
                         !.formData = [name |-> EmptyStr, email |-> EmptyStr],
                         !.progress = NoProgress]
    /\ returned' = {}
    /\ UNCHANGED <<activeTab, ReturnForm, tasks, network>>

(***************************************************************************)
(* ReturnForm: what the user does                                          *)
(***************************************************************************)
ReturnShown == activeTab = "return" /\ ReturnView = "form"

ReturnEdit(form) ==
    /\ ReturnShown
    /\ ReturnForm' = form
    /\ returned' = {}
    /\ UNCHANGED <<activeTab, BorrowForm, tasks, network>>

setName(value) ==
    ReturnEdit([ReturnForm EXCEPT !.name = value, !.selectedDevices = {}])

setEmail(value) ==
    ReturnEdit([ReturnForm EXCEPT !.email = value, !.selectedDevices = {}])

selectBorrower(borrower) ==
    /\ borrower \in Range(nameSuggestions) \cup Range(emailSuggestions)
    /\ ReturnEdit([ReturnForm EXCEPT !.name = borrower.name,
                                     !.email = borrower.email,
                                     !.selectedDevices = {}])

\* the selection toggleDevice leaves
ToggledDevice(selected, assetId) ==
    IF assetId \in selected THEN selected \ {assetId} ELSE selected \cup {assetId}

\* a variant of toggleSelectAll that clears any selection that is not empty
ToggledSelectAllOrNone(selected, listed) ==
    IF selected # {} THEN {}
    ELSE {listed[k].AssetID : k \in 1..Len(listed)}

\* the selection toggleSelectAll leaves
ToggledSelectAll(selected, listed) ==
    IF Cardinality(selected) = Len(listed) THEN {}
    ELSE {listed[k].AssetID : k \in 1..Len(listed)}

toggleDevice(assetId) ==
    /\ \E k \in 1..Len(userBorrowedDevices) : userBorrowedDevices[k].AssetID = assetId
    /\ ReturnEdit([ReturnForm EXCEPT !.selectedDevices = ToggledDevice(@, assetId)])

toggleSelectAll ==
    /\ Len(userBorrowedDevices) > 0
    /\ ReturnEdit([ReturnForm EXCEPT !.selectedDevices =
                      ToggledSelectAll(@, userBorrowedDevices)])

devicesToReturn(form) ==
    LET keep(d) == d.AssetID \in form.selectedDevices
    IN  SelectSeq(userBorrowedDevicesOf(form.devices, form.name, form.email), keep)

\* ReturnForm.handleSubmit with a selection, up to its first await: the
\* loop it starts, and the component state it leaves
ReturnSubmitTask(form) ==
    LoopHead(NewTask("return", TRUE, devicesToReturn(form), EmptyStr, EmptyStr, ""))

ReturnSubmitted(form) ==
    ReturnFormAfter([form EXCEPT !.submitting = TRUE,
                                 !.progress = [current |-> 0,
                                               total |-> Len(devicesToReturn(form)),
                                               deviceId |-> ""]],
                    ReturnSubmitTask(form))

\* the submit button is enabled; handleSubmit up to its first await
ReturnSubmit ==
    /\ ReturnShown
    /\ ~ReturnForm.submitting
    /\ ReturnForm.selectedDevices # {}
    /\ trim(ReturnForm.name) # EmptyStr
    /\ trim(ReturnForm.email) # EmptyStr
    /\ Len(tasks) < MaxBatches
    /\ tasks' = Started(ReturnSubmitTask(ReturnForm))
    /\ network' = network \cup NetworkAfter(StartedId, ReturnSubmitTask(ReturnForm))
    /\ ReturnForm' = ReturnSubmitted(ReturnForm)
    /\ returned' = {}
    /\ UNCHANGED <<activeTab, BorrowForm>>

resetForm ==
    /\ activeTab = "return"
    /\ ReturnView = "results"
    /\ ReturnForm' = [ReturnForm EXCEPT !.submissionResults = NullResults,
                                        !.progress = NullProgress,
                                        !.selectedDevices = {},
                                        !.name = EmptyStr,
                                        !.email = EmptyStr]
    /\ returned' = {}
    /\ UNCHANGED <<activeTab, BorrowForm, tasks, network>>

(***************************************************************************)
(* The application                                                         *)
(***************************************************************************)
BatchStep ==
    \/ SettleWrite(WriteOutcomes)
    \/ \E id \in Running : DelayElapsed(id)

LoadStep ==
    \/ \E outcome \in ReadOutcomes : BorrowLoadSettle(outcome)
    \/ \E outcome \in ReadOutcomes : ReturnLoadSettle(outcome)

UserStep ==
    \/ \E tab \in {"borrow", "return"} : SwitchTab(tab)
    \/ BorrowRetry
    \/ ReturnRetry
    \/ \E value \in NameInputs : handleInputChange("name", value)
    \/ \E value \in EmailInputs : handleInputChange("email", value)
    \/ \E device \in Range(selectableDevices) : addToCart(device)
    \/ \E k \in 1..Len(BorrowForm.cart) : removeFromCart(BorrowForm.cart[k].device.AssetID)
    \/ clearCart
    \/ BorrowSubmit
    \/ handleReset
    \/ \E value \in NameInputs : setName(value)
    \/ \E value \in EmailInputs : setEmail(value)
    \/ \E b \in Range(nameSuggestions) \cup Range(emailSuggestions) : selectBorrower(b)
    \/ \E k \in 1..Len(userBorrowedDevices) : toggleDevice(userBorrowedDevices[k].AssetID)
    \/ toggleSelectAll
    \/ ReturnSubmit
    \/ resetForm

Next == BatchStep \/ LoadStep \/ UserStep

Spec == Init /\ [][Next]_vars

(***************************************************************************)
(* One batch from its start to its end, with every kind of settlement of   *)
(* its write requests: a direct call of borrowMultipleDevices on any       *)
(* device list, or the submission of a loaded and filled form.             *)
(***************************************************************************)
\* the lists of at most n members of a set
RECURSIVE SeqsUpTo(_, _)
SeqsUpTo(S, n) ==
    IF n = 0 THEN {<<>>}
    ELSE LET shorter == SeqsUpTo(S, n - 1)
         IN  shorter \cup {Append(q, x) : q \in shorter, x \in S}

NoDuplicates(q) == \A j, k \in 1..Len(q) : q[j] = q[k] => j = k

\* a direct call: any list, with repeats, and any reason
DirectCallInit ==
    \E devices \in SeqsUpTo({C001, C004}, MaxItems), reason \in {"", "demo"} :
        LET t == LoopHead(NewTask("borrow", FALSE, devices, Ann, AnnMail, reason))
        IN  /\ activeTab = "borrow"
            /\ BorrowForm = BorrowFormUnmounted
            /\ ReturnForm = ReturnFormUnmounted
            /\ tasks = (IF t.pc = "done" THEN <<>> ELSE <<t>>)
            /\ network = NetworkAfter(1, t)
            /\ returned = Returned(t)

\* BorrowForm: loaded, a cart picked from the available devices, a valid
\* name and email typed, submit pressed
BorrowSubmitInit ==
    \E payload \in Payloads :
        \E picked \in SeqsUpTo(Range(getAvailableDevices(payload)),
                               Len(getAvailableDevices(payload))) :
            LET form == [BorrowFormInitial EXCEPT
                            !.devices = payload, !.loading = FALSE,
                            !.cart = [k \in 1..Len(picked) |-> [device |-> picked[k]]],
                            !.formData = [name |-> Ann, email |-> AnnMail]]
            IN  /\ picked # <<>>
                /\ NoDuplicates(picked)
                /\ activeTab = "borrow"
                /\ BorrowForm = BorrowSubmitted(form)
                /\ ReturnForm = ReturnFormUnmounted
                /\ tasks = <<BorrowSubmitTask(form)>>
                /\ network = NetworkAfter(1, BorrowSubmitTask(form))
                /\ returned = {}

\* ReturnForm: loaded, a borrower chosen, some of the borrower's devices
\* ticked, submit pressed
ReturnSubmitInit ==
    \E payload \in Payloads :
        \E borrower \in Range(uniqueBorrowersOf(payload)) :
            \E ticked \in SUBSET {d.AssetID : d \in Range(payload)} :
                LET form == [ReturnFormInitial EXCEPT
                                !.devices = payload, !.loading = FALSE,
                                !.name = borrower.name, !.email = borrower.email,
                                !.selectedDevices = ticked]
                    listed == userBorrowedDevicesOf(payload, borrower.name,
                                                    borrower.email)
                IN  /\ ticked # {}
                    /\ ticked \subseteq {d.AssetID : d \in Range(listed)}
                    /\ activeTab = "return"
                    /\ BorrowForm = BorrowFormUnmounted
                    /\ ReturnForm = ReturnSubmitted(form)
                    /\ tasks = <<ReturnSubmitTask(form)>>
                    /\ network = NetworkAfter(1, ReturnSubmitTask(form))
                    /\ returned = {}

BatchInit == DirectCallInit \/ BorrowSubmitInit \/ ReturnSubmitInit

BatchNext ==
    \/ SettleWrite(AllWriteOutcomes)
    \/ \E id \in Running : DelayElapsed(id)
    \/ \E outcome \in ReadOutcomes : BorrowLoadSettle(outcome)
    \/ \E outcome \in ReadOutcomes : ReturnLoadSettle(outcome)

BatchSpec == BatchInit /\ [][BatchNext]_vars

(***************************************************************************)
(* The directory: a form mounts, its GET answers with any short device     *)
(* list, whose devices have any of their two identity fields populated.    *)
(***************************************************************************)
Bo == <<"B", "o">>

DirectoryDevices ==
    {Device(id, "Laptop", name, email) :
        id \in {"L002", "L003", "L005"}, name \in {EmptyStr, Ann, annLower, Bo},
        email \in {EmptyStr, AnnMail}}

DirectoryPayloads ==
    {list \in SeqsUpTo(DirectoryDevices, MaxDevices) :
        \A j, k \in 1..Len(list) : list[j].AssetID = list[k].AssetID => j = k}

DirectoryOutcomes ==
    {Responded(200, "application/json", "[..]", Json(DevicesBody(list))) :
        list \in DirectoryPayloads}
    \cup ReadFailures

DirectoryNext ==
    \/ \E outcome \in DirectoryOutcomes : BorrowLoadSettle(outcome)
    \/ \E outcome \in DirectoryOutcomes : ReturnLoadSettle(outcome)
    \/ \E tab \in {"borrow", "return"} : SwitchTab(tab)
    \/ BorrowRetry
    \/ ReturnRetry

DirectorySpec == Init /\ [][DirectoryNext]_vars

(***************************************************************************)
(* The borrower matcher: the return form is mounted, its GET answers with  *)
(* a short device list, and the user types in the name and email fields    *)
(* or picks a suggestion.                                                  *)
(***************************************************************************)
\* the device lists: L002, L003, L005 in this order, each borrowed by
\* anyone, by no one, or with one identity field only
MatcherIds == <<"L002", "L003", "L005">>

MatcherPayloads ==
    {list \in SeqsUpTo(DirectoryDevices, MaxDevices) :
        \A k \in 1..Len(list) :
            k <= Len(MatcherIds) /\ list[k].AssetID = MatcherIds[k]}

MatcherOutcomes ==
    {Responded(200, "application/json", "[..]", Json(DevicesBody(list))) :
        list \in MatcherPayloads}

\* what the user types: nothing, a blank, parts of a name or an email in
\* either case, a name with one letter wrong, a name after a blank
AnnMailUpper == <<"A", "@", "b", ".", "c">>
NameQueries ==
    {EmptyStr, <<" ">>, <<"a", "n">>, <<"A", "N">>, <<"A", "m">>,
     <<" ", "A", "n">>, Bo}
EmailQueries == {EmptyStr, AnnMail, AnnMailUpper, <<"A", "N">>}

MatcherInit ==
    /\ activeTab = "return"
    /\ BorrowForm = BorrowFormUnmounted
    /\ ReturnForm = ReturnFormInitial
    /\ tasks = <<>>
    /\ network = {}
    /\ returned = {}

MatcherNext ==
    \/ \E outcome \in MatcherOutcomes : ReturnLoadSettle(outcome)
    \/ \E value \in NameQueries : setName(value)
    \/ \E value \in EmailQueries : setEmail(value)
    \/ \E b \in Range(nameSuggestions) \cup Range(emailSuggestions) : selectBorrower(b)

MatcherSpec == MatcherInit /\ [][MatcherNext]_vars

(***************************************************************************)
(* The cart: the borrow form loads any short device list, ids repeated     *)
(* or not, and the user adds, removes and clears.                          *)
(***************************************************************************)
ShelfDevices ==
    {Device(id, type, EmptyStr, EmptyStr) :
        id \in {"L002", "L003"}, type \in {"Laptop", "Charger"}}
    \cup {Device("L002", "Laptop", Ann, AnnMail),
          Device("L005", "Laptop", EmptyStr, EmptyStr)}

ShelfOutcomes ==
    {Responded(200, "application/json", "[..]", Json(DevicesBody(list))) :
        list \in SeqsUpTo(ShelfDevices, MaxDevices)}

CartNext ==
    \/ \E outcome \in ShelfOutcomes : BorrowLoadSettle(outcome)
    \/ \E device \in Range(selectableDevices) : addToCart(device)
    \/ \E k \in 1..Len(BorrowForm.cart) : removeFromCart(BorrowForm.cart[k].device.AssetID)
    \/ clearCart

CartSpec == Init /\ [][CartNext]_vars

(***************************************************************************)
(* The submit of the borrow form over names and emails of every shape,     *)
(* and the batch it starts.                                                *)
(***************************************************************************)
SubmitNames == {EmptyStr, <<" ">>, Ann, <<" ", "A">>}
SubmitEmails ==
    {EmptyStr, <<" ">>, AnnMail, <<"a", "@", "b">>, <<" ", "a", "@", "b", ".", "c">>,
     <<"a", "@", "b", ".">>, <<"@", "b", ".", "c">>, <<"a", "@", "@", ".", "c">>,
     <<"a", ".", "b", "@", "c", ".", "d", ".", "e">>}

SubmitNext ==
    \/ \E outcome \in ReadOutcomes : BorrowLoadSettle(outcome)
    \/ \E value \in SubmitNames : handleInputChange("name", value)
    \/ \E value \in SubmitEmails : handleInputChange("email", value)
    \/ \E device \in Range(selectableDevices) : addToCart(device)
    \/ clearCart
    \/ BorrowSubmit
    \/ SettleWrite(WriteOutcomes)
    \/ \E id \in Running : DelayElapsed(id)

SubmitSpec == Init /\ [][SubmitNext]_vars

(***************************************************************************)
(* The return form: it loads any short list of devices borrowed under      *)
(* names and emails that differ in case, the user types, picks, ticks      *)
(* and submits, and the batch runs.                                        *)
(***************************************************************************)
PaddedAnn == <<" ", "A", "n">>

BorrowedAs ==
    {<<EmptyStr, EmptyStr>>, <<Ann, AnnMail>>, <<annLower, AnnMailUpper>>,
     <<Bo, AnnMail>>}

ReturnPayloads ==
    {list \in SeqsUpTo({Device(id, "Laptop", by[1], by[2]) :
                            id \in Range(MatcherIds), by \in BorrowedAs},
                       MaxDevices) :
        \A k \in 1..Len(list) : k <= Len(MatcherIds) /\ list[k].AssetID = MatcherIds[k]}

\* the form has loaded one of the lists
ReturnInit ==
    /\ activeTab = "return"
    /\ BorrowForm = BorrowFormUnmounted
    /\ \E list \in ReturnPayloads :
           ReturnForm = LoadSettled(ReturnFormInitial, [ok |-> TRUE, data |-> list])
    /\ tasks = <<>>
    /\ network = {}
    /\ returned = {}

ReturnNext ==
    \/ \E outcome \in ReadOutcomes : ReturnLoadSettle(outcome)
    \/ \E value \in {EmptyStr, Ann, PaddedAnn} : setName(value)
    \/ \E value \in {EmptyStr, AnnMail} : setEmail(value)
    \/ \E b \in Range(nameSuggestions) \cup Range(emailSuggestions) : selectBorrower(b)
    \/ \E k \in 1..Len(userBorrowedDevices) : toggleDevice(userBorrowedDevices[k].AssetID)
    \/ toggleSelectAll
    \/ ReturnSubmit
    \/ SettleWrite(WriteOutcomes)
    \/ \E id \in Running : DelayElapsed(id)
    \/ resetForm

ReturnSpec == ReturnInit /\ [][ReturnNext]_vars

(***************************************************************************)
(* Properties of a batch                                                   *)
(***************************************************************************)
\* the calls that are running, and the call that has just returned
AllTasks == Range(tasks) \cup returned

\* the loop of the call is over
Finished(t) == t.pc \in {"reload", "done"}

EventsOf(t, kind) ==
    LET is(e) == e.ev = kind
    IN  SelectSeq(t.trace, is)

\* how many events of a kind come before position p of the trace
CountBefore(t, kind, p) ==
    Cardinality({q \in 1..(p - 1) : t.trace[q].ev = kind})

Successes(results) == {k \in 1..Len(results) : results[k].success}
Failures(results) == {k \in 1..Len(results) : ~results[k].success}

\* C1: the result list of a batch follows its input: at every moment
\* result k carries the AssetID of input item k, and once the loop is over
\* the list is as long as the input, whatever items failed
C1_ResultsFollowInput ==
    \A t \in AllTasks :
        /\ Len(t.results) <= Len(t.devices)
        /\ \A k \in 1..Len(t.results) :
               t.results[k].deviceId = t.devices[k].AssetID
        /\ Finished(t) => Len(t.results) = Len(t.devices)

\* a call on two different devices has returned, first item failed, second
\* succeeded
C1_Witness ==
    \E t \in returned :
        /\ Len(t.devices) = 2
        /\ t.devices[1].AssetID # t.devices[2].AssetID
        /\ Len(t.results) = 2
        /\ ~t.results[1].success
        /\ t.results[2].success

\* C2: a failure never aborts the batch: the write requests a batch has
\* started are those of items 0, 1, 2, .. in list order, one per item, and
\* once the loop is over every item has had its request, whatever the
\* outcomes of the earlier ones
C2_EachItemAttemptedOnceInOrder ==
    \A t \in AllTasks :
        LET requests == EventsOf(t, "request")
        IN  /\ \A k \in 1..Len(requests) :
                   /\ k <= Len(t.devices)
                   /\ requests[k] = RequestEvent(k - 1, WriteBody([t EXCEPT !.i = k - 1]))
            /\ Len(requests) = IF Finished(t) THEN Len(t.devices) ELSE t.i + 1

\* a batch of a form is over whose first item failed and whose second item
\* was attempted all the same
C2_Witness ==
    \E t \in AllTasks :
        /\ t.form
        /\ Finished(t)
        /\ Len(t.results) = 2
        /\ ~t.results[1].success
        /\ Len(EventsOf(t, "request")) = 2

\* C3: within one batch at most one write request is in flight: a batch
\* awaiting has exactly one, a batch sleeping has none, and every request
\* was started when all the earlier requests of the batch had settled
C3_OneWriteInFlight ==
    \A id \in Running :
        /\ Cardinality(InFlight(id)) = IF tasks[id].pc = "await" THEN 1 ELSE 0
        /\ \A p \in 1..Len(tasks[id].trace) :
               tasks[id].trace[p].ev = "request" =>
                   CountBefore(tasks[id], "request", p)
                       = CountBefore(tasks[id], "settled", p)

\* two batches run at the same time, each on its second item, with one
\* request in flight each
C3_Witness ==
    /\ Len(tasks) = 2
    /\ \A id \in Running :
           /\ tasks[id].pc = "await"
           /\ tasks[id].i = 1
           /\ Cardinality(InFlight(id)) = 1

\* C4: the progress reports of a batch of total items are (0, total, id 0),
\* (1, total, id 1), .. and last (total, total, ''), each made when exactly
\* as many requests have settled as it reports completed and, for an item,
\* before that item's request; total + 1 reports once the loop is over, and
\* the single report (0, 0, '') for an empty batch
C4_ProgressReports ==
    \A t \in AllTasks :
        LET total == Len(t.devices)
            reports == EventsOf(t, "progress")
        IN  /\ Len(reports) = IF Finished(t) THEN total + 1 ELSE t.i + 1
            /\ \A k \in 1..Len(reports) :
                   reports[k] = IF k <= total
                                THEN ProgressEvent(k - 1, total, t.devices[k].AssetID)
                                ELSE ProgressEvent(total, total, "")
            /\ \A p \in 1..Len(t.trace) :
                   t.trace[p].ev = "progress" =>
                       /\ CountBefore(t, "settled", p) = t.trace[p].completed
                       /\ CountBefore(t, "request", p) = t.trace[p].completed

\* a direct call on two devices has returned after three reports
C4_Witness ==
    \E t \in returned :
        /\ ~t.form
        /\ Len(t.devices) = 2
        /\ Len(EventsOf(t, "progress")) = 3

\* C5: the delays of a batch are one of 300 ms after each item but the
\* last, set right after the item's request settled, success or failure,
\* and over before the next item is reported and requested: n - 1 delays
\* for a batch of n >= 1 items, none for an empty batch
C5_OneDelayBetweenItems ==
    \A t \in AllTasks :
        LET n == Len(t.devices)
            delays == EventsOf(t, "delay")
        IN  /\ \A k \in 1..Len(delays) : delays[k] = DelayEvent(k - 1, DelayMs)
            /\ Len(delays) = IF Finished(t) THEN (IF n = 0 THEN 0 ELSE n - 1)
                             ELSE IF t.pc = "sleep" THEN t.i + 1 ELSE t.i
            /\ \A p \in 1..Len(t.trace) :
                   /\ t.trace[p].ev = "delay" =>
                          /\ p > 1
                          /\ t.trace[p - 1].ev = "settled"
                          /\ t.trace[p - 1].i = t.trace[p].i
                   /\ (t.trace[p].ev = "settled" /\ t.trace[p].i < n - 1
                          /\ p < Len(t.trace)) => t.trace[p + 1].ev = "delay"
                   /\ (t.trace[p].ev = "request" /\ t.trace[p].i > 0) =>
                          CountBefore(t, "delay", p) = t.trace[p].i

\* a return of two devices is over, the first return failed, one delay
C5_Witness ==
    \E t \in AllTasks :
        /\ t.kind = "return"
        /\ Finished(t)
        /\ Len(t.devices) = 2
        /\ ~t.results[1].success
        /\ EventsOf(t, "delay") = <<DelayEvent(0, DelayMs)>>

\* C6: no failure of an item leaves the batch: every settlement of a
\* request, a failure of any kind included, has its result, success false
\* with the message for a failure, and the loop ends with the whole list
C6_FailuresBecomeResults ==
    \A t \in AllTasks :
        LET settlements == EventsOf(t, "settled")
        IN  /\ Len(settlements) = Len(t.results)
            /\ \A k \in 1..Len(t.results) :
                   /\ settlements[k] = SettledEvent(k - 1, t.results[k].success)
                   /\ t.results[k].success <=> "error" \notin DOMAIN t.results[k]
            /\ t.pc \in {"await", "sleep", "reload", "done"}
            /\ Finished(t) => Len(t.results) = Len(t.devices)

\* a direct call has returned two failures, one of a fetch that rejected
\* and one of an HTTP status
C6_Witness ==
    \E t \in returned :
        /\ Len(t.results) = 2
        /\ Failures(t.results) = {1, 2}
        /\ t.results[1].error = WriteNetworkMessage
        /\ t.results[2].error = "Not Found"

\* C8: the report after a batch of a form depends on the counts only:
\* success when no result is false, warning (partial) when some are true
\* and some false, error (all failed) when none is true; the true and the
\* false results together are the whole list
C8_OutcomeFromCounts ==
    \A t \in AllTasks :
        (t.form /\ Finished(t)) =>
            LET successCount == Cardinality(Successes(t.results))
                failCount == Cardinality(Failures(t.results))
            IN  /\ successCount + failCount = Len(t.results)
                /\ t.toast.type =
                       IF successCount = Len(t.results) THEN "success"
                       ELSE IF successCount > 0 THEN "warning"
                       ELSE "error"
                /\ t.toast.title =
                       IF failCount = 0
                       THEN (IF t.kind = "borrow"
                             THEN "All devices borrowed successfully!"
                             ELSE "All devices returned!")
                       ELSE IF successCount > 0 THEN "Partial success"
                       ELSE IF t.kind = "borrow" THEN "All requests failed"
                       ELSE "Return failed"

\* a borrow of two devices ended with one success and one failure, and the
\* partial report
C8_Witness ==
    \E t \in AllTasks :
        /\ t.form
        /\ t.kind = "borrow"
        /\ Finished(t)
        /\ Cardinality(Successes(t.results)) = 1
        /\ Cardinality(Failures(t.results)) = 1
        /\ t.toast = Toast("warning", "Partial success")

\* C9: when every item of a batch failed, every result has success false
\* and a non-empty error message, and the report of a form is the
\* all-failed one
C9_AllFailedHaveMessages ==
    \A t \in AllTasks :
        (Finished(t) /\ t.results # <<>> /\ Successes(t.results) = {}) =>
            /\ \A k \in 1..Len(t.results) :
                   /\ "error" \in DOMAIN t.results[k]
                   /\ t.results[k].error # ""
            /\ t.form => t.toast.type = "error"

\* the results of a batch are on screen in the form of its kind
Published(t) ==
    IF t.kind = "borrow"
    THEN BorrowForm.submitted /\ BorrowForm.submissionResults = t.results
    ELSE ReturnForm.submissionResults = Results(t.results)

\* C7: a batch a form started runs to its end whatever the user does,
\* tab switches included, and at its end its results are published: the
\* handleSubmit that returns has set them in the form instance that
\* started it, still mounted, or the form of its kind shows them
C7_CompletedBatchIsPublished ==
    \A t \in returned :
        t.form => (Len(t.results) = Len(t.devices) /\ (t.mounted \/ Published(t)))

\* a device with exactly one of Name and Email populated
HalfPopulated(device) == (device.Name = EmptyStr) # (device.Email = EmptyStr)

\* the device list of the mounted form, once loaded
LoadedDevices ==
    IF activeTab = "borrow" THEN BorrowForm.devices ELSE ReturnForm.devices

IsSublistInOrder(sub, list) ==
    LET at(device) == CHOOSE k \in 1..Len(list) : list[k] = device
    IN  /\ Range(sub) \subseteq Range(list)
        /\ \A j, k \in 1..Len(sub) : j < k => at(sub[j]) < at(sub[k])

\* C11: getAvailableDevices and getBorrowedDevices give disjoint sub-lists
\* of the device list, in its order; when every device has both identity
\* fields empty or both populated each device is in exactly one of them
C11_DisjointOrderedParts ==
    LET available == getAvailableDevices(LoadedDevices)
        borrowed == getBorrowedDevices(LoadedDevices)
    IN  /\ Range(available) \cap Range(borrowed) = {}
        /\ IsSublistInOrder(available, LoadedDevices)
        /\ IsSublistInOrder(borrowed, LoadedDevices)
        /\ (\A device \in Range(LoadedDevices) : ~HalfPopulated(device)) =>
               /\ Range(available) \cup Range(borrowed) = Range(LoadedDevices)
               /\ Len(available) + Len(borrowed) = Len(LoadedDevices)

\* a list of three is loaded: borrowed, available, borrowed
C11_Witness ==
    /\ Len(LoadedDevices) = 3
    /\ getAvailableDevices(LoadedDevices) = <<LoadedDevices[2]>>
    /\ getBorrowedDevices(LoadedDevices) = <<LoadedDevices[1], LoadedDevices[3]>>

\* the borrowed devices of the return form, and where a key first appears
BorrowedOfForm == getBorrowedDevices(ReturnForm.devices)

FirstWithKey(key) ==
    CHOOSE k \in 1..Len(BorrowedOfForm) :
        /\ BorrowerKey(BorrowedOfForm[k]) = key
        /\ \A j \in 1..(k - 1) : BorrowerKey(BorrowedOfForm[j]) # key

\* one entry per key of the borrowed devices, in order of first appearance,
\* each with the number of borrowed devices of its key
IsFullBorrowerList(suggestions) ==
    LET keys == {BorrowerKey(device) : device \in Range(BorrowedOfForm)}
        keyOf(b) == BorrowerKey([Name |-> b.name, Email |-> b.email])
        counts == [k \in 1..Len(suggestions) |-> suggestions[k].deviceCount]
    IN  /\ Len(suggestions) = Cardinality(keys)
        /\ {keyOf(suggestions[k]) : k \in 1..Len(suggestions)} = keys
        /\ \A j, k \in 1..Len(suggestions) :
               j < k => FirstWithKey(keyOf(suggestions[j]))
                            < FirstWithKey(keyOf(suggestions[k]))
        /\ \A k \in 1..Len(suggestions) :
               counts[k] = Cardinality({j \in 1..Len(BorrowedOfForm) :
                               BorrowerKey(BorrowedOfForm[j]) = keyOf(suggestions[k])})
        /\ \A n \in 0..Len(BorrowedOfForm) :
               Cardinality({<<k, c>> \in (1..Len(suggestions)) \X (1..Len(BorrowedOfForm)) :
                               c <= counts[k]}) = n
                   <=> n = Len(BorrowedOfForm)

\* C12: with an empty or blank query the suggestions of a field are the
\* full borrower list: one entry per distinct lower-cased name|email key of
\* the borrowed devices, in order of first appearance, deviceCount the
\* number of borrowed devices of the key, the counts adding up to the
\* number of borrowed devices; none for an empty device list
C12_BlankQueryListsAllBorrowers ==
    /\ trim(ReturnForm.name) = EmptyStr => IsFullBorrowerList(nameSuggestions)
    /\ trim(ReturnForm.email) = EmptyStr => IsFullBorrowerList(emailSuggestions)
    /\ ReturnForm.devices = <<>> => nameSuggestions = <<>> /\ emailSuggestions = <<>>

\* devices of Ann, Bo and ann are loaded and the name field holds a blank:
\* Ann with two devices, then Bo with one
C12_Witness ==
    /\ ReturnForm.name = <<" ">>
    /\ Len(ReturnForm.devices) = 3
    /\ nameSuggestions =
           <<[name |-> Ann, email |-> AnnMail, deviceCount |-> 2],
             [name |-> Bo, email |-> AnnMail, deviceCount |-> 1]>>

\* sub occurs in s at some offset
OccursIn(sub, s) ==
    \E offset \in 0..(Len(s) - Len(sub)) :
        \A k \in 1..Len(sub) : s[offset + k] = sub[k]

\* the borrower's lower-cased name or email contains the lower-cased query
MatchesQuery(b, query) ==
    \/ OccursIn(toLowerCase(query), toLowerCase(b.name))
    \/ OccursIn(toLowerCase(query), toLowerCase(b.email))

\* the members of the full borrower list that match, in its order
IsMatchingBorrowerList(suggestions, query) ==
    LET full == uniqueBorrowersOf(ReturnForm.devices)
    IN  /\ IsSublistInOrder(suggestions, full)
        /\ \A b \in Range(full) : b \in Range(suggestions) <=> MatchesQuery(b, query)

DiffersByOneCharacter(query, text) ==
    /\ Len(query) = Len(text)
    /\ Cardinality({k \in 1..Len(text) :
                       toLowerCase(query)[k] # toLowerCase(text)[k]}) = 1

\* C14: a query with a typo, one that differs by one character from a
\* borrower's name or email and so is contained in neither, still has that
\* borrower among the suggestions of the name field
C14_TypoStillSuggestsBorrower ==
    \A b \in Range(uniqueBorrowersOf(ReturnForm.devices)) :
        (/\ \/ DiffersByOneCharacter(ReturnForm.name, b.name)
            \/ DiffersByOneCharacter(ReturnForm.name, b.email)
         /\ ~MatchesQuery(b, ReturnForm.name))
            => b \in Range(nameSuggestions)

\* the devices of a list whose Name and Email equal a name and an email,
\* case apart; none when the name or the email is empty
DevicesOfBorrower(devices, name, email) ==
    {device \in Range(devices) :
        /\ name # EmptyStr
        /\ email # EmptyStr
        /\ toLowerCase(device.Name) = toLowerCase(name)
        /\ toLowerCase(device.Email) = toLowerCase(email)}

\* C15: the lookup of the devices of a borrower, getBorrowedDevicesByUser
\* on the given name and email and userBorrowedDevices on the typed ones
\* without their surrounding blanks, gives exactly the devices whose Name
\* and Email equal them case-insensitively, in list order, none when the
\* name or the email is empty, and never a device without borrower
C15_LookupMatchesBothFields ==
    LET devices == ReturnForm.devices
        name == ReturnForm.name
        email == ReturnForm.email
        byUser == getBorrowedDevicesByUser(devices, name, email)
    IN  /\ IsSublistInOrder(byUser, devices)
        /\ Range(byUser) = DevicesOfBorrower(devices, name, email)
        /\ \A device \in Range(byUser) :
               device.Name # EmptyStr /\ device.Email # EmptyStr
        /\ IsSublistInOrder(userBorrowedDevices, devices)
        /\ Range(userBorrowedDevices)
               = DevicesOfBorrower(devices, trim(name), trim(email))

(***************************************************************************)
(* Properties of the errors                                                *)
(***************************************************************************)
\* the two kinds of structured error
IsNetworkError(error) == error.isNetworkError /\ error.status = <<>>
IsHttpError(error) == ~error.isNetworkError /\ error.status # <<>>

\* C16: every failure of fetchDevices, borrowDevice and returnDevice is a
\* network error (flag set, no status) or an HTTP error (status set, flag
\* not set), one of the two: however the write request of a running batch
\* or the GET of a loading form fails
C16_FailuresAreNetworkOrHttp ==
    /\ \A r \in network, outcome \in AllWriteOutcomes :
           LET settled == WriteSettlement(tasks[r.task], outcome)
           IN  ~settled.ok =>
                   (IsNetworkError(settled.error) # IsHttpError(settled.error))
    /\ (BorrowForm.loading \/ ReturnForm.loading) =>
           \A outcome \in ReadFailures :
               LET settled == fetchDevices(outcome)
               IN  /\ ~settled.ok
                   /\ IsNetworkError(settled.error) # IsHttpError(settled.error)

\* a member of a JSON error body that holds a message
IsPresent(member) == member.t = "string" /\ member.s # ""

\* the message by the stated order: the body's message member, else its
\* error member, else the response text, else the generic string
MessageByStatedOrder(response) ==
    LET body == response.parsed
        isObject == body.valid /\ body.value.t = "object"
    IN  IF isObject /\ IsPresent(body.value.message) THEN body.value.message.s
        ELSE IF isObject /\ IsPresent(body.value.error) THEN body.value.error.s
        ELSE IF response.text # "" THEN response.text
        ELSE "Request failed with status " \o ToString(response.status)

\* C17: the message of a non-success response is the JSON body's message
\* member if present, else its error member if present, else the response
\* text, else a generic string with the status code, and is never empty:
\* for every write request in flight and every response that can fail it
C17_MessageOrderNeverEmpty ==
    \A r \in network, outcome \in AllWriteOutcomes :
        (outcome.type = "response" /\ ~ResponseOk(outcome)) =>
            LET settled == WriteSettlement(tasks[r.task], outcome)
            IN  /\ ~settled.ok
                /\ settled.error.message # ""
                /\ settled.error.message = MessageByStatedOrder(outcome)

(***************************************************************************)
(* Properties of the loads                                                 *)
(***************************************************************************)
\* a load has failed and no later load has started
LoadFailedLast(form) == ~form.loading /\ form.loadError.t = "string"

\* a form goes from not loading to loading
LoadStarts(before, after) == ~before.loading /\ after.loading

\* the steps that may start a load of a form: its mount, a press of Try
\* Again in its error view, the end of the loop of its batch
MayStartLoad(kind, before, view) ==
    \/ activeTab' # activeTab
    \/ view = "error" /\ HasLoadError(before)
    \/ \E id \in 1..Len(tasks') :
           /\ tasks'[id].kind = kind
           /\ tasks'[id].pc = "reload"
           /\ (id \in Running => tasks[id].pc = "await")

\* C18: a directory fetch is never retried automatically: after a failed
\* load the form is in its error state, the one that offers the retry, and
\* a load starts only on mount, on a press of the retry, or after a batch
C18_NoAutomaticRetry ==
    [][/\ LoadFailedLast(BorrowForm') => HasLoadError(BorrowForm')
       /\ LoadFailedLast(ReturnForm') => HasLoadError(ReturnForm')
       /\ LoadStarts(BorrowForm, BorrowForm') =>
              MayStartLoad("borrow", BorrowForm, BorrowView)
       /\ LoadStarts(ReturnForm, ReturnForm') =>
              MayStartLoad("return", ReturnForm, ReturnView)]_vars

\* the payloads of the fetches that succeed
SuccessfulPayloads ==
    {fetchDevices(outcome).data :
        outcome \in {o \in ReadOutcomes : fetchDevices(o).ok}}

\* the load of a form settles in this step, and with success: loadDevices
\* clears the error when it starts and sets it only when the fetch fails
LoadSettles(before, after) ==
    activeTab' = activeTab /\ before.loading /\ ~after.loading
LoadSucceeds(before, after) ==
    LoadSettles(before, after) /\ after.loadError = NoLoadError

\* the device list of a form over one step: the payload of the fetch that
\* succeeded in it, the empty list of a form that is mounted or unmounted
\* in it, and the list it had in every other step
DevicesFollowFetches(before, after) ==
    IF LoadSucceeds(before, after) THEN after.devices \in SuccessfulPayloads
    ELSE IF activeTab' # activeTab THEN after.devices = <<>>
    ELSE after.devices = before.devices

\* C19: the device list of a form is the payload of its most recent
\* successful fetch, empty before the first: a failed fetch, a borrow or
\* return result, a cart edit, a selection change and a reset leave it as
\* it is
C19_DevicesAreLastPayload ==
    [][/\ DevicesFollowFetches(BorrowForm, BorrowForm')
       /\ DevicesFollowFetches(ReturnForm, ReturnForm')]_vars

\* a fetch failed in a form that holds the list of an earlier fetch
C19_Witness ==
    \/ LoadFailedLast(BorrowForm) /\ BorrowForm.devices # <<>>
    \/ LoadFailedLast(ReturnForm) /\ ReturnForm.devices # <<>>

(***************************************************************************)
(* Properties of the write requests                                        *)
(***************************************************************************)
Carries(body, assetId, deviceType, name, email) ==
    /\ body.AssetID = assetId
    /\ body.DeviceType = deviceType
    /\ body.Name = name
    /\ body.Email = email
    /\ body.Reason = ""

\* a form starts a batch in this step: the batch is the newest one
BorrowSubmits == activeTab' = activeTab /\ ~BorrowForm.submitting /\ BorrowForm'.submitting
ReturnSubmits == activeTab' = activeTab /\ ~ReturnForm.submitting /\ ReturnForm'.submitting
Newest == tasks'[Len(tasks')]

\* the batch a form starts processes the cart devices (the selected
\* devices) in their order, with the name and email as entered
SubmitTakesFormValues ==
    /\ BorrowSubmits =>
           /\ Len(tasks') = Len(tasks) + 1
           /\ Newest.kind = "borrow"
           /\ Newest.devices = [k \in 1..Len(BorrowForm.cart) |->
                                   BorrowForm.cart[k].device]
           /\ Newest.name = BorrowForm.formData.name
           /\ Newest.email = BorrowForm.formData.email
    /\ ReturnSubmits =>
           /\ Len(tasks') = Len(tasks) + 1
           /\ Newest.kind = "return"
           /\ {Newest.devices[k].AssetID : k \in 1..Len(Newest.devices)}
                  = ReturnForm.selectedDevices

\* every request in flight of a batch of a form carries the values of its
\* batch and of the device it is for
RequestsCarryValues ==
    \A r \in network :
        LET t == tasks[r.task]
            device == t.devices[r.i + 1]
        IN  t.form =>
                IF t.kind = "borrow"
                THEN Carries(r.body, device.AssetID, device.DeviceType,
                             t.name, t.email)
                ELSE Carries(r.body, device.AssetID, "", EmptyStr, EmptyStr)

\* C20: every borrow request carries the AssetID and DeviceType of its cart
\* device, the name and email entered and an empty Reason; every return
\* request carries the AssetID and empty DeviceType, Email, Name and Reason
C20_RequestsCarryFormValues ==
    [][SubmitTakesFormValues /\ RequestsCarryValues']_vars

\* the borrow request of the second cart device is in flight while a
\* return request is
C20_Witness ==
    /\ \E r \in network : tasks[r.task].kind = "borrow" /\ r.i = 1
    /\ \E r \in network : tasks[r.task].kind = "return"

(***************************************************************************)
(* Properties across batches                                               *)
(***************************************************************************)
\* the batches whose results are not yet produced
InProgress == {id \in Running : tasks[id].pc # "reload"}

\* C21: at most one batch is in progress in the application at any time,
\* so no two write requests are ever in flight together
C21_OneBatchAtATime ==
    /\ Cardinality(InProgress) <= 1
    /\ Cardinality(network) <= 1

\* what a batch was given when it was submitted
Given(t) == [kind |-> t.kind, devices |-> t.devices, name |-> t.name,
             email |-> t.email]

IsPrefix(p, q) ==
    Len(p) <= Len(q) /\ \A k \in 1..Len(p) : p[k] = q[k]

\* over one step every batch that goes on keeps what it was given and only
\* adds to its results; a batch that starts has no results
BatchesKeepTheirLists ==
    /\ Len(tasks') >= Len(tasks) =>
           /\ \A id \in Running :
                  /\ Given(tasks'[id]) = Given(tasks[id])
                  /\ IsPrefix(tasks[id].results, tasks'[id].results)
           /\ \A id \in (1..Len(tasks')) \ Running :
                  tasks'[id].results = <<>>
    /\ Len(tasks') < Len(tasks) =>
           \A id \in 1..Len(tasks') :
               \E old \in Running :
                   /\ Given(tasks'[id]) = Given(tasks[old])
                   /\ tasks'[id].results = tasks[old].results

\* the requests and results of a batch are for the items it was given
BatchesWorkOnTheirLists ==
    /\ \A r \in network :
           r.body.AssetID = tasks[r.task].devices[r.i + 1].AssetID
    /\ \A t \in AllTasks :
           /\ Len(t.results) <= Len(t.devices)
           /\ \A k \in 1..Len(t.results) :
                  t.results[k].deviceId = t.devices[k].AssetID

\* C22: each batch works on the item list and the result list fixed when
\* submit was pressed: the items are the cart (the selected devices) of
\* that moment, edits made while the batch runs do not change the requests
\* sent, and the results hold no entry of an earlier batch
C22_BatchListsFixedAtSubmit ==
    [][/\ BorrowSubmits =>
              Newest.devices = [k \in 1..Len(BorrowForm.cart) |->
                                   BorrowForm.cart[k].device]
       /\ ReturnSubmits =>
              {Newest.devices[k].AssetID : k \in 1..Len(Newest.devices)}
                  = ReturnForm.selectedDevices
       /\ BatchesKeepTheirLists
       /\ BatchesWorkOnTheirLists']_vars

\* the second request of a borrow batch is in flight and the cart and the
\* name are no longer those of the submit
C22_Witness ==
    \E r \in network :
        /\ tasks[r.task].kind = "borrow"
        /\ tasks[r.task].mounted
        /\ r.i = 1
        /\ CartDevices(BorrowForm.cart) # tasks[r.task].devices
        /\ BorrowForm.formData.name # tasks[r.task].name

(***************************************************************************)
(* Properties of the reset                                                 *)
(***************************************************************************)
\* the step leaves the results view of a form that stays mounted
BorrowResets ==
    activeTab' = activeTab /\ BorrowForm.submitted /\ ~BorrowForm'.submitted
ReturnResets ==
    /\ activeTab' = activeTab
    /\ ~ReturnForm.submissionResults.null
    /\ ReturnForm'.submissionResults.null

\* C23: starting over discards the data of the batch and nothing else: the
\* borrow form is left with an empty cart, empty results, empty name and
\* email and zero progress, the return form with cleared results and
\* progress, an empty selection and empty name and email, and both with
\* the device list, and every other field, they had
C23_ResetDiscardsBatchDataOnly ==
    [][/\ BorrowResets =>
              /\ BorrowForm'.cart = <<>>
              /\ BorrowForm'.submissionResults = <<>>
              /\ BorrowForm'.formData = [name |-> EmptyStr, email |-> EmptyStr]
              /\ BorrowForm'.progress = [current |-> 0, total |-> 0, deviceId |-> ""]
              /\ BorrowForm'.devices = BorrowForm.devices
              /\ BorrowForm'.loading = BorrowForm.loading
              /\ BorrowForm'.loadError = BorrowForm.loadError
              /\ BorrowForm'.submitting = BorrowForm.submitting
              /\ BorrowForm'.errors = BorrowForm.errors
              /\ UNCHANGED <<tasks, network>>
       /\ ReturnResets =>
              /\ ReturnForm'.progress = NullProgress
              /\ ReturnForm'.selectedDevices = {}
              /\ ReturnForm'.name = EmptyStr
              /\ ReturnForm'.email = EmptyStr
              /\ ReturnForm'.devices = ReturnForm.devices
              /\ ReturnForm'.loading = ReturnForm.loading
              /\ ReturnForm'.loadError = ReturnForm.loadError
              /\ ReturnForm'.submitting = ReturnForm.submitting
              /\ UNCHANGED <<tasks, network>>]_vars

\* the borrow form was reset while the re-fetch of its batch is in flight,
\* and it holds its device list
C23_Witness ==
    /\ \E id \in Attached("borrow") : tasks[id].pc = "reload"
    /\ ~BorrowForm.submitted
    /\ BorrowForm.cart = <<>>
    /\ BorrowForm.devices # <<>>

(***************************************************************************)
(* Properties of the item results                                          *)
(***************************************************************************)
Accepted(outcome) == outcome.type = "response" /\ ResponseOk(outcome)

\* C24: the result of an item has success true exactly when the write
\* endpoint answered the item's request with a 2xx status, for borrow and
\* for return alike: for every request in flight and every settlement it
\* can get
C24_SuccessIffAccepted ==
    \A r \in network, outcome \in AllWriteOutcomes :
        LET t == tasks[r.task]
        IN  ResultOf(t, WriteSettlement(t, outcome)).success = Accepted(outcome)

(***************************************************************************)
(* Properties of the end of a batch                                        *)
(***************************************************************************)
\* the positions of the events of a kind in the trace of a batch
PositionsOf(t, kind) == {p \in 1..Len(t.trace) : t.trace[p].ev = kind}

\* C25: after every batch of a form, whatever its outcome, exactly one
\* directory re-fetch is started, and only after the results of the batch
\* have been recorded and the outcome has been reported; none is started
\* before the batch is over, and the mounted form is loading from then on
C25_OneRefetchAfterBatch ==
    /\ \A t \in AllTasks :
           t.form =>
               IF Finished(t)
               THEN /\ Cardinality(PositionsOf(t, "load")) = 1
                    /\ t.trace[Len(t.trace)] = LoadEvent
                    /\ t.trace[Len(t.trace) - 1] = ToastEvent(t.toast)
                    /\ t.toast # NoToast
                    /\ t.trace[Len(t.trace) - 2] = ResultsEvent(t.results)
                    /\ Len(t.results) = Len(t.devices)
                    /\ \A p \in PositionsOf(t, "settled") : p < Len(t.trace) - 2
               ELSE PositionsOf(t, "load") = {}
    /\ \A id \in Attached("borrow") :
           tasks[id].pc = "reload" => BorrowForm.loading
    /\ \A id \in Attached("return") :
           tasks[id].pc = "reload" => ReturnForm.loading

\* batches of a form are over with each of the three outcomes: one was
\* reported as all failed and sent its re-fetch, and one as a partial
\* success
C25_Witness ==
    /\ \E t \in AllTasks :
           /\ t.form /\ Finished(t) /\ t.toast.type = "error"
           /\ t.trace[Len(t.trace)] = LoadEvent
    /\ \E t \in AllTasks :
           /\ t.form /\ Finished(t) /\ t.toast.type = "warning"
           /\ t.trace[Len(t.trace)] = LoadEvent

(***************************************************************************)
(* Properties of the cart                                                  *)
(***************************************************************************)
\* a list without its member k
Without(q, k) == SubSeq(q, 1, k - 1) \o SubSeq(q, k + 1, Len(q))

\* C26: after any sequence of add, remove and clear the cart never holds
\* two items with the same AssetID; adding a device that is in the cart
\* leaves the cart as it is, and removing a device removes that device
\* alone and keeps the order of the others
C26_CartHasNoDuplicates ==
    LET cart == BorrowForm.cart
    IN  /\ \A j, k \in 1..Len(cart) :
               cart[j].device.AssetID = cart[k].device.AssetID => j = k
        /\ \A device \in Range(BorrowForm.devices) :
               IsInCart(cart, device.AssetID) => AddedToCart(cart, device) = cart
        /\ \A k \in 1..Len(cart) :
               RemovedFromCart(cart, cart[k].device.AssetID) = Without(cart, k)

\* the cart holds two devices, one of them under an id that the list has
\* twice, in the order they were added, which is not that of the list
C26_Witness ==
    /\ Len(BorrowForm.cart) = 2
    /\ \E j, k \in 1..Len(BorrowForm.devices) :
           /\ j # k
           /\ BorrowForm.devices[j].AssetID = BorrowForm.devices[k].AssetID
           /\ IsInCart(BorrowForm.cart, BorrowForm.devices[j].AssetID)
    /\ \E j, k \in 1..Len(availableDevices) :
           /\ j < k
           /\ availableDevices[k] = BorrowForm.cart[1].device
           /\ availableDevices[j] = BorrowForm.cart[2].device

(***************************************************************************)
(* Properties of the submit of the borrow form                             *)
(***************************************************************************)
IsBlank(s) == \A k \in 1..Len(s) : s[k] = " "

\* local@domain.tld: three parts that are not empty and hold no space
HasEmailForm(email) ==
    /\ \A k \in 1..Len(email) : email[k] # " "
    /\ \E at, dot \in 1..Len(email) :
           /\ email[at] = "@"
           /\ email[dot] = "."
           /\ 1 < at /\ at + 1 < dot /\ dot < Len(email)

MaySubmit(form) ==
    /\ ~IsBlank(form.formData.name)
    /\ ~IsBlank(form.formData.email)
    /\ HasEmailForm(form.formData.email)
    /\ Len(form.cart) >= 1

\* the step is a submit that validateForm refuses: it shows new errors on
\* fields that were not edited
SubmitRefused ==
    /\ BorrowForm'.formData = BorrowForm.formData
    /\ BorrowForm'.errors # BorrowForm.errors
    /\ BorrowForm'.errors # {}

\* C27: no borrow request is sent unless, at the moment of the submit, the
\* name is not blank, the email is not blank and has the form
\* local@domain.tld without spaces, and the cart holds a device; a submit
\* that fails the check sends nothing and leaves the cart, the device list
\* and the results as they are
C27_NoRequestFromInvalidForm ==
    [][/\ (\E r \in network' : r \notin network /\ r.i = 0) =>
              MaySubmit(BorrowForm) /\ BorrowSubmits
       /\ (Len(tasks') > Len(tasks) \/ BorrowSubmits) => MaySubmit(BorrowForm)
       /\ (\A r \in network' : r.task \in 1..Len(tasks'))
       /\ SubmitRefused =>
              /\ UNCHANGED <<tasks, network>>
              /\ ~BorrowForm'.submitting
              /\ BorrowForm'.cart = BorrowForm.cart
              /\ BorrowForm'.devices = BorrowForm.devices
              /\ BorrowForm'.submissionResults = BorrowForm.submissionResults
              /\ BorrowForm'.submitted = BorrowForm.submitted]_vars

\* a submit was refused for the email alone, with a device in the cart
C27_Witness ==
    /\ BorrowForm.errors = {"email"}
    /\ Len(BorrowForm.cart) = 1
    /\ ~IsBlank(BorrowForm.formData.email)
    /\ BorrowForm.formData.name = Ann
    /\ tasks = <<>>

(***************************************************************************)
(* Properties of the return form                                           *)
(***************************************************************************)
\* the device is borrowed under the name and the email, compared without
\* regard to case after the input is trimmed
BorrowedUnder(device, name, email) ==
    /\ device.Name # EmptyStr
    /\ device.Email # EmptyStr
    /\ toLowerCase(device.Name) = toLowerCase(trim(name))
    /\ toLowerCase(device.Email) = toLowerCase(trim(email))

\* C28: every return request is for a device that the current device list
\* holds as borrowed under the name and email entered in the form; the
\* returns are sent in the order of the device list; a submit with an
\* empty selection sends nothing
C28_ReturnsAreOfTheBorrower ==
    [][/\ ReturnSubmits =>
              /\ Len(Newest.devices) >= 1
              /\ IsSublistInOrder(Newest.devices, ReturnForm.devices)
              /\ \A k \in 1..Len(Newest.devices) :
                     /\ BorrowedUnder(Newest.devices[k], ReturnForm.name,
                                      ReturnForm.email)
                     /\ Newest.devices[k].AssetID \in ReturnForm.selectedDevices
       /\ Len(tasks') > Len(tasks) =>
              ReturnSubmits /\ ReturnForm.selectedDevices # {}
       /\ \A r \in network' :
              /\ r.task \in 1..Len(tasks')
              /\ r.body.AssetID = tasks'[r.task].devices[r.i + 1].AssetID]_vars

\* the second return of a batch is in flight; the name was entered with a
\* leading blank, and the two devices are borrowed under names and emails
\* that differ in case
C28_Witness ==
    \E r \in network :
        LET t == tasks[r.task]
        IN  /\ r.i = 1
            /\ ReturnForm.name = PaddedAnn
            /\ t.devices[1].Name # t.devices[2].Name
            /\ t.devices[1].Email # t.devices[2].Email

\* the devices a form lists for the entered borrower, and their ids
ListedOf(form) == userBorrowedDevicesOf(form.devices, form.name, form.email)
ListedIdsOf(form) == {ListedOf(form)[k].AssetID : k \in 1..Len(ListedOf(form))}

\* the form view is rendered, not the results of a batch
FormRendered(form) == form.submissionResults.null

SelectionListed(form) == form.selectedDevices \subseteq ListedIdsOf(form)

\* what the two toggles do to the selection of a form
TogglesActOnListedIds(form) ==
    LET selected == form.selectedDevices
    IN  /\ \A id \in ListedIdsOf(form) :
               /\ ToggledDevice(selected, id) \ {id} = selected \ {id}
               /\ (id \in ToggledDevice(selected, id)) # (id \in selected)
        /\ ToggledSelectAll(selected, ListedOf(form))
               = IF selected = ListedIdsOf(form) THEN {} ELSE ListedIdsOf(form)

\* C29 as stated: the selected AssetIDs are always among the devices
\* listed for the entered borrower
C29_SelectionAlwaysListed == SelectionListed(ReturnForm)

\* C29: while the form is rendered, the selected AssetIDs are among the
\* devices listed for the entered borrower; every change of name or email
\* empties the selection, a toggle adds or removes the toggled id alone,
\* and select-all gives none when all are selected and all otherwise
C29_SelectionListedWhileRendered ==
    [][/\ FormRendered(ReturnForm') =>
              SelectionListed(ReturnForm') /\ TogglesActOnListedIds(ReturnForm')
       /\ (ReturnForm'.name # ReturnForm.name
              \/ ReturnForm'.email # ReturnForm.email) =>
              ReturnForm'.selectedDevices = {}]_vars

\* one of three listed devices is ticked
C29_Witness ==
    /\ FormRendered(ReturnForm)
    /\ Cardinality(ListedIdsOf(ReturnForm)) = 3
    /\ Cardinality(ReturnForm.selectedDevices) = 1

(***************************************************************************)
(* Properties of the progress record                                       *)
(***************************************************************************)
\* the progress record is that of a batch of the size, at a position from
\* 0 to last
ProgressWithin(progress, size, last) ==
    /\ size >= 1
    /\ progress.total = size
    /\ progress.current \in 0..last

\* the progress of a submitting borrow form, and of a submitting return
\* form, against the batch the form runs
BorrowProgressFits(form) ==
    form.submitting =>
        \E id \in Attached("borrow") :
            ProgressWithin(form.progress, Len(tasks[id].devices),
                           Len(tasks[id].devices))

ReturnProgressFits(form) ==
    form.submitting =>
        /\ form.progress # NullProgress
        /\ \E id \in Attached("return") :
               ProgressWithin(form.progress, Len(tasks[id].devices),
                              Len(tasks[id].devices) - 1)

\* C30 as stated: whenever a form is submitting, its progress has the size
\* of the running batch as total and a current from 0 to total, in the
\* return form below total
C30_ProgressFitsWhileSubmitting ==
    BorrowProgressFits(BorrowForm) /\ ReturnProgressFits(ReturnForm)

\* the borrow form shows its form view or the results of its batch: it was
\* not reset since the submit
NotResetSince(form) ==
    form.submitted \/ \E id \in Attached("borrow") : tasks[id].pc # "reload"

\* the progress does not go back over a step in which the form goes on
\* submitting
ProgressGoesOn(before, after) ==
    (before.submitting /\ after.submitting /\ activeTab' = activeTab) =>
        /\ after.progress.total = before.progress.total
        /\ after.progress.current >= before.progress.current

\* C30: whenever a form is submitting, and for the borrow form until it is
\* reset, its progress has the size of the running batch (at least 1) as
\* total and a current from 0 to total that never decreases; in the return
\* form current is below total, so the position shown, current + 1, is at
\* most total
C30_ProgressFitsUntilReset ==
    [][/\ NotResetSince(BorrowForm)' => BorrowProgressFits(BorrowForm)'
       /\ ReturnProgressFits(ReturnForm)'
       /\ ~BorrowResets => ProgressGoesOn(BorrowForm, BorrowForm')
       /\ ProgressGoesOn(ReturnForm, ReturnForm')]_vars

\* the return form shows the last of two returns, and a borrow batch that
\* was left behind is still running
C30_Witness ==
    /\ ReturnForm.submitting
    /\ ReturnForm.progress # NullProgress
    /\ ReturnForm.progress.total = 2
    /\ ReturnForm.progress.current = 1
    /\ \E id \in Running : tasks[id].kind = "borrow"

====
